---- MODULE Spec2Model ----
(***************************************************************************)
(* A model of the dotfiles installer: manifest resolution, the component   *)
(* catalog, the selection filter, build-command resolution and the         *)
(* install / list / remove actions that run over them.                     *)
(*                                                                         *)
(* Conventions.  An optional value is a sequence of length at most one:    *)
(* <<>> is "undefined", <<v>> is v.  A path is a sequence of segments.     *)
(* A component or file name is a string; Chars gives its code units where  *)
(* the code compares names.                                                *)
(***************************************************************************)
EXTENDS Integers, Sequences, FiniteSets, TLC

VARIABLES
    disk,       \* the source root: its directory entries, in readDir order
    dest,       \* the destination filesystem: path -> what is there
    dirs,       \* directories created by ensureDir
    home,       \* the HOME environment variable (optional)
    machineId,  \* what detectDistro returns
    cmd,        \* the command being run: "install", "list", "remove"
    flags,      \* the raw flags of the command
    args,       \* the component names given on the command line
    pc,         \* position of the running action
    catalog,    \* the manifests as getAvailableManifests returned them
    finalList,  \* the live manifest objects the install loop iterates
    ci,         \* index of the component being processed
    cmds,       \* the command list of the build / cleanup step in progress
    ki,         \* index into cmds
    ei,         \* index of the config entry being processed
    log         \* what the run did, in order

vars == <<disk, dest, dirs, home, machineId, cmd, flags, args, pc,
          catalog, finalList, ci, cmds, ki, ei, log>>

---------------------------------------------------------------------------
(* Bounds of the model. *)

\* The most entries a source root holds in an install, list or remove run.
MaxComps == 2

\* The most entries a source root holds when only the catalog is built.
MaxEntries == 3

\* The most commands one key of a builds map declares.
MaxDeclared == 2

\* The most manifests of a catalog when only the selection filter is applied.
MaxListed == 3

\* The most segments of a path given to resolveHomePath on its own.
MaxSegments == 3

---------------------------------------------------------------------------
(* Optional values and small helpers. *)

None == <<>>
Some(v) == <<v>>
IsSome(o) == Len(o) > 0

Range(s) == {s[i] : i \in 1..Len(s)}

RECURSIVE SelectSeq2(_, _)
\* Array.prototype.filter with a predicate given as a set of kept indices.
SelectSeq2(s, keep) ==
    IF s = <<>> THEN <<>>
    ELSE LET n == Len(s)
             front == SelectSeq2(SubSeq(s, 1, n - 1), keep)
         IN  IF n \in keep THEN Append(front, s[n]) ELSE front

---------------------------------------------------------------------------
(* constants/distro.ts and lib/distro.ts *)

PackagerByDistro ==
    [fedora |-> "dnf", nobara |-> "dnf", arch |-> "pacman", cachyos |-> "pacman"]

getAvailableDistros == DOMAIN PackagerByDistro

availableTags == getAvailableDistros \cup {"*"}

---------------------------------------------------------------------------
(* lib/manifest.ts: the schemas. *)

\* ConfigSrcSchema with unset tags left as an empty list.
ConfigSrcSchemaNoDefaultTags(raw) ==
    [ok    |-> /\ IsSome(raw.from)
               /\ IsSome(raw.to)
               /\ raw.method \in {"copy", "symlink"}
               /\ IsSome(raw.tags) => Range(raw.tags[1]) \subseteq availableTags,
     value |-> [from   |-> IF IsSome(raw.from) THEN raw.from[1] ELSE "",
                to     |-> IF IsSome(raw.to) THEN raw.to[1] ELSE <<>>,
                method |-> raw.method,
                force  |-> IF IsSome(raw.force) THEN raw.force[1] ELSE FALSE,
                tags   |-> IF IsSome(raw.tags) THEN raw.tags[1] ELSE <<>>]]

\* ConfigSrcSchema.parse: required from / to, method in the enum, force
\* defaulting to false, tags defaulting to ["*"] and drawn from availableTags.
ConfigSrcSchema(raw) ==
    [ok    |-> /\ IsSome(raw.from)
               /\ IsSome(raw.to)
               /\ raw.method \in {"copy", "symlink"}
               /\ IsSome(raw.tags) => Range(raw.tags[1]) \subseteq availableTags,
     value |-> [from   |-> IF IsSome(raw.from) THEN raw.from[1] ELSE "",
                to     |-> IF IsSome(raw.to) THEN raw.to[1] ELSE <<>>,
                method |-> raw.method,
                force  |-> IF IsSome(raw.force) THEN raw.force[1] ELSE FALSE,
                tags   |-> IF IsSome(raw.tags) THEN raw.tags[1] ELSE <<"*">>]]

\* A parsed config entry seen again as a document (installConfigs parses each
\* entry of the parsed manifest a second time).
AsDocument(c) ==
    [from |-> Some(c.from), to |-> Some(c.to), method |-> c.method,
     force |-> Some(c.force), tags |-> Some(c.tags)]

\* DotfileManifestSchema.parse: required name; priority, builds, configs and
\* cleanup optional and left undefined when unset; builds keyed by availableTags.
DotfileManifestSchema(doc) ==
    LET cfgs == IF IsSome(doc.configs) THEN doc.configs[1] ELSE <<>>
    IN  [ok    |-> /\ IsSome(doc.name)
                   /\ IsSome(doc.builds) => DOMAIN doc.builds[1] \subseteq availableTags
                   /\ \A i \in 1..Len(cfgs) : ConfigSrcSchema(cfgs[i]).ok,
         value |-> [name     |-> IF IsSome(doc.name) THEN doc.name[1] ELSE "",
                    priority |-> doc.priority,
                    builds   |-> doc.builds,
                    configs  |-> IF IsSome(doc.configs)
                                 THEN Some([i \in 1..Len(cfgs) |-> ConfigSrcSchema(cfgs[i]).value])
                                 ELSE None,
                    cleanup  |-> doc.cleanup]]

---------------------------------------------------------------------------
(* The source root on disk. *)

\* The directory entry called name directly under the source root, if any.
DirEntry(dsk, name) ==
    LET hits == {i \in 1..Len(dsk) : dsk[i].name = name}
    IN  IF hits = {} THEN None ELSE Some(CHOOSE i \in hits : TRUE)

\* Whether <root>/<name> can be entered: a directory, or a link to one.
IsComponentDir(dsk, name) ==
    /\ IsSome(DirEntry(dsk, name))
    /\ dsk[DirEntry(dsk, name)[1]].kind \in {"dir", "symlink"}

\* exists(join(root, name, rel)) for a payload path rel.
PayloadExists(dsk, name, rel) ==
    /\ IsComponentDir(dsk, name)
    /\ rel \in dsk[DirEntry(dsk, name)[1]].payload

---------------------------------------------------------------------------
(* lib/manifest.ts: resolveManifest and getManifest. *)

NoManifest ==
    [name |-> "", priority |-> None, builds |-> None, configs |-> None,
     cleanup |-> None]

\* join(sourcePath, cmpName): the directory resolveManifest works in.
componentDir(sourcePath, cmpName) == sourcePath \o <<cmpName>>

\* join(srcPath, config.from), srcPath being join(componentDir): the path
\* resolveManifest checks for existence.
fullFromPath(sourcePath, cmpName, config) ==
    componentDir(sourcePath, cmpName) \o <<config.from>>

\* Deno.stat(srcPath).isDirectory, where srcPath is join(componentDir): the
\* component directory itself.
SrcStatIsDirectory(dsk, cmpName) == IsComponentDir(dsk, cmpName)

\* FirstMissingFrom looking at the entries from the last one backwards.
LastMissingFrom(dsk, cmpName, man) ==
    LET cfgs == IF IsSome(man.configs) THEN man.configs[1] ELSE <<>>
        bad  == {i \in 1..Len(cfgs) : ~PayloadExists(dsk, cmpName, cfgs[i].from)}
    IN  IF bad = {} THEN 0 ELSE CHOOSE i \in bad : \A j \in bad : i >= j

\* The first config entry whose from path does not exist, 0 when all exist.
FirstMissingFrom(dsk, cmpName, man) ==
    LET cfgs == IF IsSome(man.configs) THEN man.configs[1] ELSE <<>>
        bad  == {i \in 1..Len(cfgs) : ~PayloadExists(dsk, cmpName, cfgs[i].from)}
    IN  IF bad = {} THEN 0 ELSE CHOOSE i \in bad : \A j \in bad : i <= j

\* resolveManifest: the manifest, or the cause of the error it throws (and
\* the from value the error names).
resolveManifest(dsk, cmpName) ==
    LET e      == IF IsComponentDir(dsk, cmpName)
                  THEN Some(dsk[DirEntry(dsk, cmpName)[1]]) ELSE None
        file   == IF IsSome(e) THEN e[1].manifest.state ELSE "missing"
        parsed == IF file = "ok" THEN DotfileManifestSchema(e[1].manifest.doc)
                  ELSE [ok |-> FALSE, value |-> NoManifest]
        miss   == IF parsed.ok THEN FirstMissingFrom(dsk, cmpName, parsed.value) ELSE 0
        fail(cause, from) ==
            [ok |-> FALSE, cause |-> cause, missing |-> from, manifest |-> NoManifest]
    IN  IF file = "missing" THEN fail("manifest not found", "")
        ELSE IF file = "malformed" THEN fail("malformed manifest", "")
        ELSE IF ~parsed.ok THEN fail("schema", "")
        ELSE IF ~SrcStatIsDirectory(dsk, cmpName) THEN fail("missing src directory", "")
        ELSE IF miss # 0
        THEN fail("source path not found", parsed.value.configs[1][miss].from)
        ELSE [ok |-> TRUE, cause |-> "", missing |-> "", manifest |-> parsed.value]

\* getManifest: the manifest, or undefined (with a warning) when resolution throws.
getManifest(dsk, entryName) ==
    LET r == resolveManifest(dsk, entryName)
    IN  IF r.ok THEN Some(r.manifest) ELSE None

---------------------------------------------------------------------------
(* String comparison.  Chars gives the UTF-16 code units of every name the *)
(* model uses (ASCII letters only).                                        *)

Chars ==
    ("git" :> <<103, 105, 116>>) @@ ("vim" :> <<118, 105, 109>>) @@
    ("zsh" :> <<122, 115, 104>>) @@ ("Zsh" :> <<90, 115, 104>>) @@
    ("bad" :> <<98, 97, 100>>) @@ ("tmux" :> <<116, 109, 117, 120>>) @@
    ("tmx" :> <<116, 109, 120>>) @@ ("a" :> <<97>>) @@ ("A" :> <<65>>) @@
    ("b" :> <<98>>) @@ ("B" :> <<66>>) @@ ("ab" :> <<97, 98>>)

Sign(n) == IF n < 0 THEN -1 ELSE IF n > 0 THEN 1 ELSE 0

\* Lexicographic comparison of two sequences of numbers: -1, 0 or 1.
SeqCompare(x, y) ==
    LET n == IF Len(x) < Len(y) THEN Len(x) ELSE Len(y)
        d == {i \in 1..n : x[i] # y[i]}
    IN  IF d = {} THEN Sign(Len(x) - Len(y))
        ELSE LET i == CHOOSE k \in d : \A j \in d : k <= j
             IN  IF x[i] < y[i] THEN -1 ELSE 1

\* Comparison by code unit (what a plain case-sensitive comparison does).
CodeUnitCompare(a, b) == SeqCompare(Chars[a], Chars[b])

\* String.prototype.localeCompare in the default locale, for ASCII letters:
\* the letters are compared alphabetically without regard to case; strings
\* with the same letters are then ordered by case, lowercase first.
localeCompare(a, b) ==
    LET isUpper(c) == c \in 65..90
        primary(s)  == [i \in 1..Len(s) |-> IF isUpper(s[i]) THEN s[i] + 32 ELSE s[i]]
        tertiary(s) == [i \in 1..Len(s) |-> IF isUpper(s[i]) THEN 1 ELSE 0]
        p == SeqCompare(primary(Chars[a]), primary(Chars[b]))
    IN  IF p # 0 THEN p ELSE SeqCompare(tertiary(Chars[a]), tertiary(Chars[b]))

---------------------------------------------------------------------------
(* lib/manifest.ts: getAvailableManifests. *)

\* CompareManifests with an undefined priority taken as 0.
CompareManifestsZeroDefault(sortBy, a, b) ==
    LET ap == IF IsSome(a.priority) THEN a.priority[1] ELSE 0
        bp == IF IsSome(b.priority) THEN b.priority[1] ELSE 0
    IN  IF sortBy = "priority" /\ ap # bp THEN Sign(ap - bp)
        ELSE localeCompare(a.name, b.name)

\* The sort comparator: negative when a goes first.  An undefined priority
\* is Infinity; equal priorities (Infinity included) fall back to the name.
CompareManifests(sortBy, a, b) ==
    IF sortBy = "priority" /\ a.priority # b.priority
    THEN IF ~IsSome(a.priority) THEN 1
         ELSE IF ~IsSome(b.priority) THEN -1
         ELSE Sign(a.priority[1] - b.priority[1])
    ELSE localeCompare(a.name, b.name)

RECURSIVE SortManifests(_, _)
\* Array.prototype.sort with CompareManifests: a stable sort.
SortManifests(s, sortBy) ==
    IF s = <<>> THEN <<>>
    ELSE LET n     == Len(s)
             front == SortManifests(SubSeq(s, 1, n - 1), sortBy)
             k     == Cardinality({i \in 1..Len(front) :
                                      CompareManifests(sortBy, front[i], s[n]) <= 0})
         IN  SubSeq(front, 1, k) \o <<s[n]>> \o SubSeq(front, k + 1, Len(front))

\* The names whose resolution is attempted: the explicit names when given,
\* otherwise the entries of the source root that are directories.
Candidates(dsk, cmpNames) ==
    IF Len(cmpNames) > 0 THEN cmpNames
    ELSE LET ds == SelectSeq2(dsk, {i \in 1..Len(dsk) : dsk[i].kind = "dir"})
         IN  [i \in 1..Len(ds) |-> ds[i].name]

RECURSIVE CollectUntilFailure(_, _)
\* CollectManifests without the catch of getManifest: the first candidate
\* that fails to resolve ends the loop.
CollectUntilFailure(dsk, names) ==
    IF names = <<>> THEN <<>>
    ELSE LET m == getManifest(dsk, Head(names))
         IN  IF m = None THEN <<>> ELSE m \o CollectUntilFailure(dsk, Tail(names))

RECURSIVE CollectManifests(_, _)
\* The loop over the candidates: push every manifest getManifest returns.
CollectManifests(dsk, names) ==
    IF names = <<>> THEN <<>>
    ELSE LET n     == Len(names)
             front == CollectManifests(dsk, SubSeq(names, 1, n - 1))
         IN  front \o getManifest(dsk, names[n])

\* The source roots that exist: the default one and the one holding disk.
RootExists(source) == source \in {None, Some(<<"/", "dots">>)}

getAvailableManifests(dsk, sortBy, cmpNames, source) ==
    IF ~RootExists(source) THEN <<>>
    ELSE SortManifests(CollectManifests(dsk, Candidates(dsk, cmpNames)), sortBy)

---------------------------------------------------------------------------
(* actions/install.ts and actions/list.ts: the selection filter. *)

\* HasTagged with the wildcard tag of an entry matching every selection.
HasTaggedOrWildcard(config, selected) ==
    \E i \in 1..Len(config.tags) : config.tags[i] \in Range(selected) \cup {"*"}

\* c.tags.some((t) => selected.includes(t))
HasTagged(config, selected) ==
    \E i \in 1..Len(config.tags) : config.tags[i] \in Range(selected)

\* f.tags ?? [machineId, "*"]
AutoTags(f, id) == IF IsSome(f.tags) THEN f.tags[1] ELSE <<id, "*">>

FilterByTags(all, f, id) ==
    IF IsSome(f.tags) /\ Len(f.tags[1]) > 0
    THEN SelectSeq2(all, {i \in 1..Len(all) :
             /\ IsSome(all[i].configs)
             /\ \E j \in 1..Len(all[i].configs[1]) :
                    HasTagged(all[i].configs[1][j], AutoTags(f, id))})
    ELSE all

\* FilterExcluded removing only the first component with an excluded name.
FilterExcludedFirstMatch(list, f) ==
    LET hits == {i \in 1..Len(list) : list[i].name \in Range(f.exclude[1])}
    IN  IF IsSome(f.exclude) /\ Len(f.exclude[1]) > 0 /\ hits # {}
        THEN SelectSeq2(list, (1..Len(list)) \ {CHOOSE i \in hits : \A j \in hits : i <= j})
        ELSE list

\* FilterExcluded comparing the names without regard to case.
FilterExcludedIgnoringCase(list, f) ==
    LET fold(n) == [i \in 1..Len(Chars[n]) |->
                       IF Chars[n][i] \in 65..90 THEN Chars[n][i] + 32 ELSE Chars[n][i]]
    IN  IF IsSome(f.exclude) /\ Len(f.exclude[1]) > 0
        THEN SelectSeq2(list, {i \in 1..Len(list) :
                 \A k \in 1..Len(f.exclude[1]) : fold(list[i].name) # fold(f.exclude[1][k])})
        ELSE list

\* filteredByTags.filter((x) => !f.exclude?.includes(x.name))
FilterExcluded(list, f) ==
    IF IsSome(f.exclude) /\ Len(f.exclude[1]) > 0
    THEN SelectSeq2(list, {i \in 1..Len(list) : list[i].name \notin Range(f.exclude[1])})
    ELSE list

FinalList(all, f, id) == FilterExcluded(FilterByTags(all, f, id), f)

---------------------------------------------------------------------------
(* lib/fs.ts: path resolution. *)

Cwd == <<"/", "work">>

\* resolve(path): an absolute path stays, any other is taken from the cwd.
Resolve(path) == IF path # <<>> /\ path[1] = "/" THEN path ELSE Cwd \o path

\* path.startsWith("~"): the first segment is "~" or begins with it.
StartsWithTilde(path) == path # <<>> /\ path[1] \in {"~", "~foo"}

\* resolveHomePath: a path that starts with "~" needs HOME (unset and empty
\* both throw); only a first segment that is exactly "~" is replaced by it.
resolveHomePath(path, hm) ==
    IF StartsWithTilde(path)
    THEN IF ~IsSome(hm) \/ hm[1] = <<>> THEN [ok |-> FALSE, path |-> <<>>]
         ELSE IF path[1] = "~" THEN [ok |-> TRUE, path |-> Resolve(hm[1] \o Tail(path))]
         ELSE [ok |-> TRUE, path |-> Resolve(path)]
    ELSE [ok |-> TRUE, path |-> Resolve(path)]

\* getResolvedConfigPaths: from under <source>/<cmpName>, to with ~ expanded.
getResolvedConfigPaths(sourcePath, cmpName, entry, hm) ==
    LET t == resolveHomePath(entry.to, hm)
    IN  [ok |-> t.ok, from |-> Resolve(sourcePath \o <<cmpName, entry.from>>), to |-> t.path]

---------------------------------------------------------------------------
(* The destination filesystem. *)

Nothing == [kind |-> "none", src |-> <<>>, locked |-> FALSE]

\* Directories that exist before any run.
BaseDirs == {<<"/">>, <<"/", "home">>, <<"/", "home", "u">>, <<"/", "etc">>, Cwd}

\* Places the installing user cannot write to.
Writable(dir) == ~(Len(dir) >= 2 /\ dir[2] = "etc")

Parent(path) == SubSeq(path, 1, Len(path) - 1)

Ancestors(path) == {SubSeq(path, 1, n) : n \in 1..(Len(path) - 1)}

\* One log line of a run.
Event(op, c, e, text, path) == [op |-> op, c |-> c, e |-> e, text |-> text, path |-> path]

RECURSIVE Events(_, _, _, _)
\* One event per filesystem call of ops, all on the same path.
Events(ops, c, e, path) ==
    IF ops = <<>> THEN <<>>
    ELSE <<Event(Head(ops), c, e, "", path)>> \o Events(Tail(ops), c, e, path)

---------------------------------------------------------------------------
(* lib/fs.ts: performFileOperation. *)

\* performFileOperation going on to place the source when the removal of
\* the existing destination was refused.
performFileOperationRemoveIgnored(sourcePath, cmpName, entry, force, hm, dsk, dst, drs) ==
    LET p         == getResolvedConfigPaths(sourcePath, cmpName, entry, hm)
        destDir   == Parent(p.to)
        mkdirs    == (Ancestors(p.to) \ BaseDirs) \ drs
        isForced  == force \/ entry.force
        destExist == dst[p.to].kind # "none"
        rmOps     == IF destExist /\ ~dst[p.to].locked THEN <<"remove">> ELSE <<>>
        mkOps     == IF mkdirs # {} THEN <<"ensureDir">> ELSE <<>>
        placed    == [dst EXCEPT ![p.to] =
                        [kind |-> entry.method, src |-> p.from, locked |-> FALSE]]
        fail(d, r, o) == [threw |-> TRUE, outcome |-> "error", dest |-> d, dirs |-> r,
                          ops |-> o, to |-> p.to]
    IN  IF ~p.ok THEN fail(dst, drs, <<>>)
        ELSE IF ~PayloadExists(dsk, cmpName, entry.from) THEN fail(dst, drs, <<>>)
        ELSE IF mkdirs # {} /\ ~Writable(destDir) THEN fail(dst, drs, <<>>)
        ELSE IF destExist /\ ~isForced
        THEN [threw |-> FALSE, outcome |-> "skip", dest |-> dst, dirs |-> drs \cup mkdirs,
              ops |-> mkOps, to |-> p.to]
        ELSE IF ~Writable(destDir) THEN fail(dst, drs \cup mkdirs, mkOps)
        ELSE [threw |-> FALSE, outcome |-> "done", dest |-> placed, dirs |-> drs \cup mkdirs,
              ops |-> mkOps \o rmOps \o <<entry.method>>, to |-> p.to]

\* The whole operation for one config entry.  threw: an error left the
\* function; outcome: "skip", "done" or "error"; ops: the filesystem calls
\* that changed something, in order.
performFileOperation(sourcePath, cmpName, entry, force, hm, dsk, dst, drs) ==
    LET p         == getResolvedConfigPaths(sourcePath, cmpName, entry, hm)
        destDir   == Parent(p.to)
        mkdirs    == (Ancestors(p.to) \ BaseDirs) \ drs
        isForced  == force \/ entry.force
        destExist == dst[p.to].kind # "none"
        removed   == [dst EXCEPT ![p.to] = Nothing]
        after     == IF destExist THEN removed ELSE dst
        rmOps     == IF destExist THEN <<"remove">> ELSE <<>>
        mkOps     == IF mkdirs # {} THEN <<"ensureDir">> ELSE <<>>
        placed    == [after EXCEPT ![p.to] =
                        [kind |-> entry.method, src |-> p.from, locked |-> FALSE]]
        fail(d, r, o) == [threw |-> TRUE, outcome |-> "error", dest |-> d, dirs |-> r,
                          ops |-> o, to |-> p.to]
    IN  IF ~p.ok THEN fail(dst, drs, <<>>)
        ELSE IF ~PayloadExists(dsk, cmpName, entry.from) THEN fail(dst, drs, <<>>)
        ELSE IF mkdirs # {} /\ ~Writable(destDir) THEN fail(dst, drs, <<>>)
        ELSE IF destExist /\ ~isForced
        THEN [threw |-> FALSE, outcome |-> "skip", dest |-> dst, dirs |-> drs \cup mkdirs,
              ops |-> mkOps, to |-> p.to]
        ELSE IF destExist /\ (dst[p.to].locked \/ ~Writable(destDir))
        THEN fail(dst, drs \cup mkdirs, mkOps)
        ELSE IF ~Writable(destDir) THEN fail(dst, drs \cup mkdirs, mkOps)
        ELSE [threw |-> FALSE, outcome |-> "done", dest |-> placed, dirs |-> drs \cup mkdirs,
              ops |-> mkOps \o rmOps \o <<entry.method>>, to |-> p.to]

---------------------------------------------------------------------------
(* lib/shell.ts *)

\* Whether the shell reports success for a command.
CommandSucceeds(c) == c.text # "false"

\* runShellCommand: simulated under dryRun, executed otherwise; throws when
\* the executed command fails.
runShellCommand(c, dryRun) ==
    IF dryRun THEN [threw |-> FALSE, op |-> "simulate"]
    ELSE [threw |-> ~CommandSucceeds(c), op |-> "exec"]

\* ensureExecutable on a builds/ entry: chmod 0o755 when no execute bit is
\* set; throws when the chmod is refused.
ensureExecutable(script) ==
    IF ~script.isFile THEN [threw |-> FALSE, chmod |-> FALSE, script |-> script]
    ELSE IF script.exec THEN [threw |-> FALSE, chmod |-> FALSE, script |-> script]
    ELSE IF script.locked THEN [threw |-> TRUE, chmod |-> FALSE, script |-> script]
    ELSE [threw |-> FALSE, chmod |-> TRUE, script |-> [script EXCEPT !.exec = TRUE]]

---------------------------------------------------------------------------
(* actions/install.ts: getComponentBuilds. *)

Declared(text) == [kind |-> "decl", text |-> text, comp |-> "", file |-> <<>>]

Invocation(comp, file) == [kind |-> "script", text |-> "bash -c", comp |-> comp, file |-> file]

\* Which key of man.builds the expression
\*   man.builds?.[machineId] || man.builds?.["*"] || []
\* yields the array of (an array is truthy even when empty); None for [].
SelectedBuildsKey(id, man) ==
    IF ~IsSome(man.builds) THEN None
    ELSE IF id \in DOMAIN man.builds[1] THEN Some(id)
    ELSE IF "*" \in DOMAIN man.builds[1] THEN Some("*")
    ELSE None

\* DeclaredCommands with the list of the wildcard added to the list of the id.
DeclaredCommandsConcat(id, man) ==
    IF ~IsSome(man.builds) THEN <<>>
    ELSE (IF id \in DOMAIN man.builds[1] THEN man.builds[1][id] ELSE <<>>)
         \o (IF "*" \in DOMAIN man.builds[1] THEN man.builds[1]["*"] ELSE <<>>)

DeclaredCommands(id, man) ==
    IF IsSome(SelectedBuildsKey(id, man))
    THEN man.builds[1][SelectedBuildsKey(id, man)[1]]
    ELSE <<>>

RECURSIVE ScanBuildsDirAllEntries(_, _, _, _)
\* ScanBuildsDir taking every matching entry, whether or not it is a file.
ScanBuildsDirAllEntries(st, id, comp, i) ==
    IF st.threw \/ i > Len(st.scripts) THEN st
    ELSE LET s == st.scripts[i]
             matched == s.name # <<>> /\ s.name[1] = id
             x == ensureExecutable(s)
         IN  IF ~matched THEN ScanBuildsDirAllEntries(st, id, comp, i + 1)
             ELSE IF x.threw THEN [st EXCEPT !.threw = TRUE]
             ELSE ScanBuildsDirAllEntries(
                     [threw    |-> FALSE,
                      commands |-> Append(st.commands, Invocation(comp, s.name)),
                      scripts  |-> [st.scripts EXCEPT ![i] = x.script],
                      chmods   |-> IF x.chmod THEN Append(st.chmods, s.name) ELSE st.chmods],
                     id, comp, i + 1)

RECURSIVE ScanBuildsDir(_, _, _, _)
\* The loop over the entries of builds/, from entry i on.  st carries the
\* command array, the scripts (with their modes) and the chmods done.
ScanBuildsDir(st, id, comp, i) ==
    IF st.threw \/ i > Len(st.scripts) THEN st
    ELSE LET s == st.scripts[i]
             matched == s.name # <<>> /\ s.name[1] = id
             x == ensureExecutable(s)
         IN  IF ~s.isFile \/ ~matched THEN ScanBuildsDir(st, id, comp, i + 1)
             ELSE IF x.threw THEN [st EXCEPT !.threw = TRUE]
             ELSE ScanBuildsDir(
                     [threw    |-> FALSE,
                      commands |-> Append(st.commands, Invocation(comp, s.name)),
                      scripts  |-> [st.scripts EXCEPT ![i] = x.script],
                      chmods   |-> IF x.chmod THEN Append(st.chmods, s.name) ELSE st.chmods],
                     id, comp, i + 1)

\* getComponentBuilds.  The commands array is the array stored in the
\* manifest whenever a key was selected, so what is pushed onto it is pushed
\* onto the manifest: manifest is the manifest object afterwards, disk the
\* source root afterwards.
\* join(source, man.name, "builds"): the directory getComponentBuilds scans.
buildsDir(source, man) == source \o <<man.name, "builds">>

getComponentBuilds(id, man, dsk) ==
    LET key    == SelectedBuildsKey(id, man)
        hasDir == /\ IsComponentDir(dsk, man.name)
                  /\ IsSome(dsk[DirEntry(dsk, man.name)[1]].builds)
        d      == DirEntry(dsk, man.name)[1]
        st     == IF hasDir
                  THEN ScanBuildsDir([threw |-> FALSE, commands |-> DeclaredCommands(id, man),
                                      scripts |-> dsk[d].builds[1], chmods |-> <<>>],
                                     id, man.name, 1)
                  ELSE [threw |-> FALSE, commands |-> DeclaredCommands(id, man),
                        scripts |-> <<>>, chmods |-> <<>>]
    IN  [threw    |-> st.threw,
         commands |-> st.commands,
         chmods   |-> st.chmods,
         manifest |-> IF IsSome(key)
                      THEN [man EXCEPT !.builds = Some([man.builds[1] EXCEPT ![key[1]] = st.commands])]
                      ELSE man,
         disk     |-> IF hasDir THEN [dsk EXCEPT ![d].builds = Some(st.scripts)] ELSE dsk]

---------------------------------------------------------------------------
(* The inputs: component directories a source root may hold, the           *)
(* destination filesystem before the run, the environment and the flags.   *)

Root == <<"/", "dots">>

RawConfig(from, to, method, force, tags) ==
    [from |-> Some(from), to |-> Some(to), method |-> method, force |-> force, tags |-> tags]

Doc(name, priority, builds, configs, cleanup) ==
    [name |-> name, priority |-> priority, builds |-> builds, configs |-> configs,
     cleanup |-> cleanup]

Script(name, isFile, exec, locked) ==
    [name |-> name, isFile |-> isFile, exec |-> exec, locked |-> locked]

Component(name, kind, state, doc, payload, builds) ==
    [name |-> name, kind |-> kind, manifest |-> [state |-> state, doc |-> doc],
     payload |-> payload, builds |-> builds]

EmptyDoc == Doc(None, None, None, None, None)

\* One symlinked file, everything else left to the defaults.
GitComponent ==
    Component("git", "dir", "ok",
        Doc(Some("git"), None, None,
            Some(<<RawConfig("gitconfig", <<"~", ".gitconfig">>, "symlink", None, None)>>),
            None),
        {"gitconfig"}, None)

\* Builds for one distro and for the wildcard, scripts under builds/, an
\* entry that cannot be written and a forced one.
VimComponent ==
    Component("vim", "dir", "ok",
        Doc(Some("vim"), Some(1),
            Some(("fedora" :> <<Declared("a")>>) @@ ("*" :> <<Declared("b")>>)),
            Some(<<RawConfig("vimrc", <<"/", "etc", "vimrc">>, "copy", None, Some(<<"*">>)),
                   RawConfig("vimrc", <<"~", ".vimrc">>, "symlink", Some(TRUE),
                             Some(<<"fedora", "*">>))>>),
            Some(<<Declared("c")>>)),
        {"vimrc"},
        Some(<<Script(<<"fedora", "sh">>, TRUE, FALSE, FALSE),
               Script(<<"arch", "sh">>, TRUE, TRUE, FALSE),
               Script(<<"fedora">>, FALSE, FALSE, FALSE)>>))

\* A failing build command, a script whose mode cannot be changed, a
\* destination shared with git and one whose directory does not exist yet.
ZshComponent ==
    Component("zsh", "dir", "ok",
        Doc(Some("zsh"), Some(1),
            Some("*" :> <<Declared("false"), Declared("b")>>),
            Some(<<RawConfig("zshrc", <<"~", ".gitconfig">>, "copy", None, None),
                   RawConfig("zshrc", <<"~", ".config", "zsh">>, "symlink", None,
                             Some(<<"arch", "fedora">>))>>),
            Some(<<Declared("false"), Declared("c")>>)),
        {"zshrc"},
        Some(<<Script(<<"arch", "sh">>, TRUE, FALSE, TRUE)>>))

\* A manifest that does not parse.
BadComponent == Component("bad", "dir", "malformed", EmptyDoc, {}, None)

\* A manifest whose name is not the name of its directory.
TmuxComponent ==
    Component("tmux", "dir", "ok",
        Doc(Some("tmx"), Some(0), None,
            Some(<<RawConfig("tmuxconf", <<"~", ".gitconfig">>, "copy", None, None)>>),
            None),
        {"tmuxconf"}, None)

Pool == <<GitComponent, VimComponent, ZshComponent, BadComponent, TmuxComponent>>

\* The source roots: up to MaxComps entries of the pool, in pool order.
Disks ==
    {SelectSeq2(Pool, keep) : keep \in {k \in SUBSET (1..Len(Pool)) : Cardinality(k) <= MaxComps}}

HomeDir == <<"/", "home", "u">>

AllDestPaths ==
    {HomeDir \o <<".gitconfig">>, HomeDir \o <<".vimrc">>, HomeDir \o <<".config", "zsh">>,
     <<"/", "etc", "vimrc">>}

\* Before the run: nothing installed, except possibly something at ~/.gitconfig.
Dests ==
    {[p \in AllDestPaths |-> IF p = HomeDir \o <<".gitconfig">> THEN g ELSE Nothing] :
        g \in {Nothing,
               [kind |-> "file", src |-> <<>>, locked |-> FALSE],
               [kind |-> "file", src |-> <<>>, locked |-> TRUE]}}

NoDest == [p \in AllDestPaths |-> Nothing]

TagChoices == {None, Some(<<>>), Some(<<"fedora">>), Some(<<"arch", "*">>)}

Flags(tags, exclude, sort, dryRun, force, skipBuilds, skipFiles, source, sourcePath) ==
    [tags |-> tags, exclude |-> exclude, sort |-> sort, dryRun |-> dryRun, force |-> force,
     skipBuilds |-> skipBuilds, skipFiles |-> skipFiles, source |-> source,
     sourcePath |-> sourcePath]

Idle ==
    /\ pc = "start"
    /\ dirs = {}
    /\ catalog = <<>>
    /\ finalList = <<>>
    /\ ci = 0
    /\ cmds = <<>>
    /\ ki = 0
    /\ ei = 0
    /\ log = <<>>

\* install: every combination of the flags that steer the run itself.
InitInstall ==
    /\ cmd = "install"
    /\ disk \in Disks
    /\ dest \in Dests
    /\ home \in {None, Some(HomeDir)}
    /\ machineId \in {"fedora", "arch"}
    /\ args = <<>>
    /\ \E t \in TagChoices, d, f, sb, sf \in BOOLEAN :
          flags = Flags(t, None, "priority", d, f, sb, sf, Some(Root), None)
    /\ Idle

\* install: every combination of the flags that select the components.
InitInstallSelect ==
    /\ cmd = "install"
    /\ disk \in Disks
    /\ dest = NoDest
    /\ home = Some(HomeDir)
    /\ machineId = "fedora"
    /\ args \in {<<>>, <<"git", "git">>, <<"zsh", "nope", "tmux">>}
    /\ \E t \in TagChoices, x \in {None, Some(<<"git">>)}, s \in {"priority", "name"},
          src \in {None, Some(Root), Some(<<"/", "nowhere">>)} :
          /\ flags = Flags(t, x, s, FALSE, FALSE, FALSE, FALSE, src, None)
          /\ ~(args = <<>> /\ x = None /\ s = "priority" /\ src = Some(Root))
    /\ Idle

InitList ==
    /\ cmd = "list"
    /\ disk \in Disks
    /\ dest = NoDest
    /\ home = Some(HomeDir)
    /\ machineId \in {"fedora", "arch"}
    /\ args = <<>>
    /\ \E t \in TagChoices, x \in {None, Some(<<"git">>)}, s \in {"priority", "name"} :
          flags = Flags(t, x, s, FALSE, FALSE, FALSE, FALSE, Some(Root), None)
    /\ Idle

\* What the runner of remove may find as source and sourcePath: the command
\* line declares --source only; a caller of the exported runner may pass
\* sourcePath.
RemoveSourceChoices == {<<None, None>>, <<Some(Root), None>>, <<None, Some(Root)>>}

InitRemove ==
    /\ cmd = "remove"
    /\ disk \in Disks
    /\ dest \in {NoDest,
                 [NoDest EXCEPT ![HomeDir \o <<".gitconfig">>] =
                     [kind |-> "symlink", src |-> Root \o <<"git", "gitconfig">>,
                      locked |-> FALSE]]}
    /\ home = Some(HomeDir)
    /\ machineId = "fedora"
    /\ args \in {<<"git">>, <<"zsh", "vim">>, <<"bad", "vim", "git">>}
    /\ \E d \in BOOLEAN, sp \in RemoveSourceChoices :
          flags = Flags(None, None, "priority", d, FALSE, FALSE, FALSE, sp[1], sp[2])
    /\ Idle

Init == InitInstall \/ InitInstallSelect \/ InitList \/ InitRemove

---------------------------------------------------------------------------
(* actions/install.ts: actionInstallComponents and its two steps. *)

\* The flags are parsed, the catalog is built and filtered.  Both skip
\* flags together end the process.
ActionInstallStart ==
    /\ pc = "start"
    /\ cmd = "install"
    /\ IF flags.skipFiles /\ flags.skipBuilds
       THEN /\ pc' = "exit"
            /\ UNCHANGED <<catalog, finalList, ci>>
       ELSE LET all == getAvailableManifests(disk, flags.sort, args, flags.source)
                fin == FinalList(all, flags, machineId)
            IN  /\ catalog' = all
                /\ finalList' = fin
                /\ ci' = IF fin = <<>> THEN 0 ELSE 1
                /\ pc' = IF fin = <<>> THEN "done" ELSE "builds"
    /\ UNCHANGED <<disk, dest, dirs, home, machineId, cmd, flags, args, cmds, ki, ei, log>>

\* installBuilds up to its first command: the skip flag, getComponentBuilds
\* (whose error is caught here), the empty list.
InstallBuilds ==
    /\ pc = "builds"
    /\ IF flags.skipBuilds
       THEN /\ pc' = "configs"
            /\ log' = Append(log, Event("installBuilds", ci, 0, "skip", <<>>))
            /\ UNCHANGED <<disk, finalList, cmds, ki>>
       ELSE LET r == getComponentBuilds(machineId, finalList[ci], disk)
                ch == [i \in 1..Len(r.chmods) |-> Event("chmod", ci, 0, "", r.chmods[i])]
            IN  /\ disk' = r.disk
                /\ finalList' = [finalList EXCEPT ![ci] = r.manifest]
                /\ log' = Append(log, Event("installBuilds", ci, 0, "", <<>>)) \o ch
                /\ IF r.threw \/ r.commands = <<>>
                   THEN pc' = "configs" /\ UNCHANGED <<cmds, ki>>
                   ELSE pc' = "command" /\ cmds' = r.commands /\ ki' = 1
    /\ UNCHANGED <<dest, dirs, home, machineId, cmd, flags, args, catalog, ci, ei>>

\* RunBuildCommand without the catch of installBuilds: the error of a failing
\* command leaves actionInstallComponents.
RunBuildCommandUncaught ==
    /\ pc = "command"
    /\ LET r == runShellCommand(cmds[ki], flags.dryRun)
       IN  /\ log' = Append(log, Event(r.op, ci, ki, cmds[ki].text, cmds[ki].file))
           /\ IF r.threw THEN pc' = "crash" /\ ki' = 0 /\ cmds' = <<>>
              ELSE IF ki = Len(cmds) THEN pc' = "configs" /\ ki' = 0 /\ cmds' = <<>>
              ELSE pc' = "command" /\ ki' = ki + 1 /\ UNCHANGED cmds
    /\ UNCHANGED <<disk, dest, dirs, home, machineId, cmd, flags, args, catalog,
                   finalList, ci, ei>>

\* RunBuildCommand with the error of a failing command swallowed inside the
\* loop: the next command of the list runs.
RunBuildCommandKeepsGoing ==
    /\ pc = "command"
    /\ LET r == runShellCommand(cmds[ki], flags.dryRun)
       IN  /\ log' = Append(log, Event(r.op, ci, ki, cmds[ki].text, cmds[ki].file))
           /\ IF ki = Len(cmds)
              THEN pc' = "configs" /\ ki' = 0 /\ cmds' = <<>>
              ELSE pc' = "command" /\ ki' = ki + 1 /\ UNCHANGED cmds
    /\ UNCHANGED <<disk, dest, dirs, home, machineId, cmd, flags, args, catalog,
                   finalList, ci, ei>>

\* One build command; a failing command throws out of the loop and is
\* caught by installBuilds.
RunBuildCommand ==
    /\ pc = "command"
    /\ LET r == runShellCommand(cmds[ki], flags.dryRun)
       IN  /\ log' = Append(log, Event(r.op, ci, ki, cmds[ki].text, cmds[ki].file))
           /\ IF r.threw \/ ki = Len(cmds)
              THEN pc' = "configs" /\ ki' = 0 /\ cmds' = <<>>
              ELSE pc' = "command" /\ ki' = ki + 1 /\ UNCHANGED cmds
    /\ UNCHANGED <<disk, dest, dirs, home, machineId, cmd, flags, args, catalog,
                   finalList, ci, ei>>

\* NextComponent with the build step left out for every component but the first.
NextComponentSkipsBuilds ==
    /\ ei' = 0
    /\ IF ci < Len(finalList)
       THEN ci' = ci + 1 /\ pc' = "configs"
       ELSE UNCHANGED ci /\ pc' = "done"

\* NextComponent ending the run once the first component is over.
NextComponentStopsAfterFirst ==
    /\ ei' = 0
    /\ UNCHANGED ci
    /\ pc' = "done"

\* The install loop moves on: the next component, or the end of the run.
NextComponent ==
    /\ ei' = 0
    /\ IF ci < Len(finalList)
       THEN ci' = ci + 1 /\ pc' = "builds"
       ELSE UNCHANGED ci /\ pc' = "done"

\* installConfigs up to its first entry: the skip flag, no configs.
InstallConfigs ==
    /\ pc = "configs"
    /\ LET man == finalList[ci]
       IN  IF flags.skipFiles \/ ~IsSome(man.configs) \/ man.configs = Some(<<>>)
           THEN /\ NextComponent
                /\ log' = Append(log, Event("installConfigs", ci, 0, "skip", <<>>))
           ELSE /\ pc' = "entry"
                /\ ei' = 1
                /\ UNCHANGED ci
                /\ log' = Append(log, Event("installConfigs", ci, 0, "", <<>>))
    /\ UNCHANGED <<disk, dest, dirs, home, machineId, cmd, flags, args, catalog,
                   finalList, cmds, ki>>

\* The loop of installConfigs goes to its next entry, or ends.
NextEntry ==
    IF ei < Len(finalList[ci].configs[1])
    THEN ei' = ei + 1 /\ UNCHANGED <<pc, ci>>
    ELSE NextComponent

\* One iteration of the loop of installConfigs: the entry is parsed, filtered
\* by tag, printed, and (unless dry-run or no source) installed.  An error
\* of performFileOperation reaches the catch around the loop.
InstallConfigEntry ==
    /\ pc = "entry"
    /\ LET man    == finalList[ci]
           config == ConfigSrcSchema(AsDocument(man.configs[1][ei])).value
           r      == performFileOperation(flags.source[1], man.name, config, flags.force,
                                          home, disk, dest, dirs)
       IN  IF ~HasTagged(config, AutoTags(flags, machineId))
           THEN /\ NextEntry
                /\ UNCHANGED <<dest, dirs, log>>
           ELSE IF flags.dryRun \/ ~IsSome(flags.source)
           THEN /\ NextEntry
                /\ log' = Append(log, Event("print", ci, ei, "", <<>>))
                /\ UNCHANGED <<dest, dirs>>
           ELSE /\ dest' = r.dest
                /\ dirs' = r.dirs
                /\ log' = Append(log, Event("print", ci, ei, "", <<>>))
                              \o <<Event("fileop", ci, ei, r.outcome, r.to)>>
                              \o Events(r.ops, ci, ei, r.to)
                /\ IF r.threw THEN NextComponent ELSE NextEntry
    /\ UNCHANGED <<disk, home, machineId, cmd, flags, args, catalog, finalList, cmds, ki>>

---------------------------------------------------------------------------
(* actions/list.ts *)

ActionList ==
    /\ pc = "start"
    /\ cmd = "list"
    /\ LET all == getAvailableManifests(disk, flags.sort, <<>>, flags.source)
       IN  /\ catalog' = all
           /\ finalList' = FinalList(all, flags, machineId)
    /\ pc' = "done"
    /\ log' = Append(log, Event("print", 0, 0, "", <<>>))
    /\ UNCHANGED <<disk, dest, dirs, home, machineId, cmd, flags, args, ci, cmds, ki, ei>>

---------------------------------------------------------------------------
(* actions/remove.ts *)

\* The flags are parsed: sourcePath is required, and its absence is an
\* error no handler catches.
ActionRemoveStart ==
    /\ pc = "start"
    /\ cmd = "remove"
    /\ IF ~IsSome(flags.sourcePath)
       THEN pc' = "crash" /\ UNCHANGED ci
       ELSE IF args = <<>> THEN pc' = "done" /\ UNCHANGED ci
       ELSE pc' = "remove" /\ ci' = 1
    /\ UNCHANGED <<disk, dest, dirs, home, machineId, cmd, flags, args, catalog,
                   finalList, cmds, ki, ei, log>>

\* The remove loop moves on.
NextRemoval ==
    IF ci < Len(args)
    THEN ci' = ci + 1 /\ pc' = "remove"
    ELSE UNCHANGED ci /\ pc' = "done"

\* One component of the remove loop up to its first cleanup command.
RemoveComponent ==
    /\ pc = "remove"
    /\ LET r == resolveManifest(IF RootExists(flags.sourcePath) THEN disk ELSE <<>>, args[ci])
       IN  IF ~r.ok
           THEN /\ NextRemoval
                /\ log' = Append(log, Event("error", ci, 0, r.cause, <<>>))
                /\ UNCHANGED <<cmds, ki>>
           ELSE IF ~IsSome(r.manifest.cleanup) \/ r.manifest.cleanup = Some(<<>>)
           THEN /\ NextRemoval
                /\ log' = Append(log, Event("nocleanup", ci, 0, "", <<>>))
                /\ UNCHANGED <<cmds, ki>>
           ELSE /\ pc' = "cleanup"
                /\ cmds' = r.manifest.cleanup[1]
                /\ ki' = 1
                /\ log' = Append(log, Event("cleanup", ci, 0, "", <<>>))
                /\ UNCHANGED ci
    /\ UNCHANGED <<disk, dest, dirs, home, machineId, cmd, flags, args, catalog,
                   finalList, ei>>

\* One cleanup command; a failing one ends this component's removal.
RunCleanupCommand ==
    /\ pc = "cleanup"
    /\ LET r == runShellCommand(cmds[ki], flags.dryRun)
       IN  /\ log' = Append(log, Event(r.op, ci, ki, cmds[ki].text, cmds[ki].file))
           /\ IF r.threw \/ ki = Len(cmds)
              THEN NextRemoval /\ ki' = 0 /\ cmds' = <<>>
              ELSE pc' = "cleanup" /\ ki' = ki + 1 /\ UNCHANGED <<cmds, ci>>
    /\ UNCHANGED <<disk, dest, dirs, home, machineId, cmd, flags, args, catalog,
                   finalList, ei>>

---------------------------------------------------------------------------

Next ==
    \/ ActionInstallStart
    \/ InstallBuilds
    \/ RunBuildCommand
    \/ InstallConfigs
    \/ InstallConfigEntry
    \/ ActionList
    \/ ActionRemoveStart
    \/ RemoveComponent
    \/ RunCleanupCommand

Spec == Init /\ [][Next]_vars

---------------------------------------------------------------------------
(* The install loop on its own: the runs from the point where the final    *)
(* list has been computed.                                                 *)

\* The state actionInstallComponents is in when it enters its loop.
InitRun ==
    /\ cmd = "install"
    /\ disk \in Disks
    /\ dest \in Dests
    /\ home \in {None, Some(HomeDir)}
    /\ machineId = "fedora"
    /\ args = <<>>
    /\ \E f, sb, sf \in BOOLEAN :
          /\ ~(sb /\ sf)
          /\ flags = Flags(None, None, "priority", FALSE, f, sb, sf, Some(Root), None)
    /\ catalog = getAvailableManifests(disk, flags.sort, args, flags.source)
    /\ finalList = FinalList(catalog, flags, machineId)
    /\ ci = IF finalList = <<>> THEN 0 ELSE 1
    /\ pc = IF finalList = <<>> THEN "done" ELSE "builds"
    /\ dirs = {}
    /\ cmds = <<>>
    /\ ki = 0
    /\ ei = 0
    /\ log = <<>>

NextRun ==
    \/ InstallBuilds
    \/ RunBuildCommand
    \/ InstallConfigs
    \/ InstallConfigEntry

\* The steps run one after the other on a single thread, each awaited, and
\* every command and file operation returns: a step that can be taken is
\* taken.
FairSpec == InitRun /\ [][NextRun]_vars /\ WF_vars(NextRun)

---------------------------------------------------------------------------
(* getAvailableManifests on its own, over every small source root. *)

DirNames == <<"git", "vim", "zsh", "tmux", "bad">>

\* The configs and the payload of the resolving component named n: none at
\* all, one entry left to the defaults, one entry with everything set (and
\* a src directory next to the payload).
ConfigChoice(n) ==
    IF n = "a" THEN [configs |-> None, payload |-> {}]
    ELSE IF n = "B"
    THEN [configs |-> Some(<<RawConfig("there", <<"~", ".gitconfig">>, "copy", None, None)>>),
          payload |-> {"there"}]
    ELSE [configs |-> Some(<<RawConfig("there", <<"~", ".vimrc">>, "symlink", Some(TRUE),
                                       Some(<<"fedora">>))>>),
          payload |-> {"src", "there"}]

\* The names and priorities of the components that resolve.
NamePriorityChoices ==
    {<<"a", None>>, <<"a", Some(0)>>, <<"a", Some(1)>>,
     <<"B", None>>, <<"B", Some(0)>>, <<"b", Some(0)>>}

\* What the directory entry called d may be: a component that resolves
\* (its cleanup telling the components apart), or one of the ways not to
\* be one.
EntryChoices(d) ==
    {Component(d, "dir", "ok",
               Doc(Some(np[1]), np[2], None, ConfigChoice(np[1]).configs,
                   Some(<<Declared(d)>>)),
               ConfigChoice(np[1]).payload, None) :
        np \in NamePriorityChoices}
    \cup
    {Component(d, "dir", "malformed", EmptyDoc, {}, None),
     Component(d, "dir", "missing", EmptyDoc, {}, None),
     Component(d, "dir", "ok",
               Doc(Some("a"), None, None,
                   Some(<<RawConfig("there", <<"~", ".gitconfig">>, "copy", None, None),
                          RawConfig("gone", <<"~", ".gitconfig">>, "copy", None, None),
                          RawConfig("lost", <<"~", ".vimrc">>, "copy", None, None)>>), None),
               {"there"}, None),
     Component(d, "file", "missing", EmptyDoc, {}, None),
     Component(d, "symlink", "ok", Doc(Some("a"), Some(0), None, None, None), {}, None)}

CatalogDisks ==
    UNION {{dsk \in [1..n -> UNION {EntryChoices(DirNames[i]) : i \in 1..n}] :
               \A i \in 1..n : dsk[i].name = DirNames[i]} : n \in 0..MaxEntries}

InitCatalog ==
    /\ cmd = "catalog"
    /\ disk \in CatalogDisks
    /\ dest = NoDest
    /\ home = Some(HomeDir)
    /\ machineId = "fedora"
    /\ args \in {<<>>, [i \in 1..Len(disk) |-> disk[Len(disk) + 1 - i].name]}
    /\ \E s \in {"priority", "name"}, src \in {Some(Root), Some(<<"/", "nowhere">>)} :
          /\ flags = Flags(None, None, s, FALSE, FALSE, FALSE, FALSE, src, None)
          /\ src # Some(Root) => (args = <<>> /\ s = "priority" /\ Len(disk) <= 1)
          /\ s = "name" => args = <<>>
    /\ Idle

\* One call of getAvailableManifests.
GetAvailableManifests ==
    /\ pc = "start"
    /\ cmd = "catalog"
    /\ catalog' = getAvailableManifests(disk, flags.sort, args, flags.source)
    /\ pc' = "done"
    /\ UNCHANGED <<disk, dest, dirs, home, machineId, cmd, flags, args, finalList, ci, cmds,
                   ki, ei, log>>

SpecCatalog == InitCatalog /\ [][GetAvailableManifests]_vars

---------------------------------------------------------------------------
(* getComponentBuilds on its own, over every small builds map and builds/  *)
(* directory.                                                              *)

CommandLists ==
    UNION {[1..n -> {Declared("a"), Declared("b")}] : n \in 0..MaxDeclared}

BuildsChoices ==
    {None} \cup
    {Some(b) : b \in UNION {[keys -> CommandLists] : keys \in SUBSET {"fedora", "arch", "*"}}}

BuildsDirChoices ==
    {None,
     Some(<<>>),
     Some(<<Script(<<"post", "fedora", "sh">>, TRUE, TRUE, FALSE),
            Script(<<"fedora", "sh">>, TRUE, FALSE, FALSE),
            Script(<<"fedora">>, FALSE, FALSE, FALSE),
            Script(<<"fedora", "local", "sh">>, TRUE, TRUE, FALSE)>>),
     Some(<<Script(<<"arch", "sh">>, TRUE, TRUE, FALSE),
            Script(<<"fedora", "sh">>, TRUE, TRUE, FALSE),
            Script(<<"fedora">>, FALSE, FALSE, FALSE),
            Script(<<"fedora", "post", "sh">>, TRUE, FALSE, TRUE)>>)}

InitBuilds ==
    /\ cmd = "builds"
    /\ \E b \in BuildsChoices, d \in BuildsDirChoices :
          disk = <<Component("vim", "dir", "ok", Doc(Some("vim"), None, b, None, None), {}, d)>>
    /\ machineId \in {"fedora", "arch", "nobara"}
    /\ dest = NoDest
    /\ home = Some(HomeDir)
    /\ args = <<>>
    /\ flags = Flags(None, None, "priority", FALSE, FALSE, FALSE, FALSE, Some(Root), None)
    /\ pc = "start"
    /\ dirs = {}
    /\ catalog = getAvailableManifests(disk, "priority", <<>>, Some(Root))
    /\ finalList = catalog
    /\ ci = 1
    /\ cmds = <<>>
    /\ ki = 0
    /\ ei = 0
    /\ log = <<>>

\* One call of getComponentBuilds on a manifest of the catalog.
GetComponentBuilds ==
    /\ pc = "start"
    /\ cmd = "builds"
    /\ LET r == getComponentBuilds(machineId, finalList[ci], disk)
       IN  /\ cmds' = r.commands
           /\ finalList' = [finalList EXCEPT ![ci] = r.manifest]
           /\ disk' = r.disk
           /\ log' = [i \in 1..Len(r.chmods) |-> Event("chmod", ci, 0, "", r.chmods[i])]
           /\ pc' = IF r.threw THEN "threw" ELSE "done"
    /\ UNCHANGED <<dest, dirs, home, machineId, cmd, flags, args, catalog, ci, ki, ei>>

SpecBuilds == InitBuilds /\ [][GetComponentBuilds]_vars

---------------------------------------------------------------------------
(* The selection filter on its own, over every small sorted catalog.       *)

SelectConfigs ==
    {None,
     Some(<<RawConfig("f", <<"~", ".gitconfig">>, "copy", None, None)>>),
     Some(<<RawConfig("f", <<"~", ".gitconfig">>, "copy", None, Some(<<"fedora">>)),
            RawConfig("g", <<"~", ".vimrc">>, "copy", None, Some(<<"arch">>))>>)}

SelectManifests ==
    {DotfileManifestSchema(Doc(Some(n), None, None, c, None)).value :
        n \in {"git", "zsh", "Zsh"}, c \in SelectConfigs}

ExcludeChoices == {None, Some(<<>>), Some(<<"zsh">>), Some(<<"git", "Zsh">>)}

\* The catalogs: what getAvailableManifests returns, so sorted.
SortedCatalogs ==
    {SortManifests(l, "priority") :
        l \in UNION {[1..n -> SelectManifests] : n \in 0..MaxListed}}

InitSelect ==
    /\ cmd = "select"
    /\ catalog \in SortedCatalogs
    /\ \E t \in TagChoices, x \in ExcludeChoices :
          flags = Flags(t, x, "priority", FALSE, FALSE, FALSE, FALSE, Some(Root), None)
    /\ machineId = "fedora"
    /\ disk = <<>>
    /\ dest = NoDest
    /\ home = Some(HomeDir)
    /\ args = <<>>
    /\ pc = "start"
    /\ dirs = {}
    /\ finalList = <<>>
    /\ ci = 0
    /\ cmds = <<>>
    /\ ki = 0
    /\ ei = 0
    /\ log = <<>>

\* The filter of the install and list actions applied to the catalog; the
\* log keeps the sizes of its input and its output.
FilterSelection ==
    /\ pc = "start"
    /\ cmd = "select"
    /\ finalList' = FinalList(catalog, flags, machineId)
    /\ log' = Append(log, Event("filter", Len(catalog), Len(finalList'), "", <<>>))
    /\ pc' = "filtered"
    /\ UNCHANGED <<disk, dest, dirs, home, machineId, cmd, flags, args, catalog, ci, cmds,
                   ki, ei>>

\* The same filter, with the same flags, applied to what it returned.
FilterSelectionAgain ==
    /\ pc = "filtered"
    /\ cmd = "select"
    /\ catalog' = finalList
    /\ finalList' = FinalList(finalList, flags, machineId)
    /\ log' = Append(log, Event("filter", Len(finalList), Len(finalList'), "", <<>>))
    /\ pc' = "refiltered"
    /\ UNCHANGED <<disk, dest, dirs, home, machineId, cmd, flags, args, ci, cmds, ki, ei>>

SpecSelect == InitSelect /\ [][FilterSelection \/ FilterSelectionAgain]_vars

---------------------------------------------------------------------------
(* resolveHomePath on its own, over every short path and every HOME.       *)

\* The paths: empty, or a first segment followed by up to MaxSegments - 1
\* more ("/" as first segment makes the path absolute).
PathChoices ==
    {<<>>} \cup
    UNION {{<<h>> \o t : h \in {"~", "~foo", "/", "x"}, t \in [1..n -> {"~", "x", "y"}]} :
              n \in 0..(MaxSegments - 1)}

HomeChoices == {None, Some(<<>>), Some(HomeDir), Some(<<"/", "root">>)}

InitHome ==
    /\ cmd = "resolveHomePath"
    /\ args \in PathChoices
    /\ home \in HomeChoices
    /\ machineId = "fedora"
    /\ disk = <<>>
    /\ dest = NoDest
    /\ flags = Flags(None, None, "priority", FALSE, FALSE, FALSE, FALSE, Some(Root), None)
    /\ Idle

\* One call of resolveHomePath; the log keeps what it returned, or that it
\* threw.
ResolveHomePath ==
    /\ pc = "start"
    /\ cmd = "resolveHomePath"
    /\ LET r == resolveHomePath(args, home)
       IN  log' = <<Event(IF r.ok THEN "resolved" ELSE "threw", 0, 0, "", r.path)>>
    /\ pc' = "done"
    /\ UNCHANGED <<disk, dest, dirs, home, machineId, cmd, flags, args, catalog, finalList,
                   ci, cmds, ki, ei>>

SpecHome == InitHome /\ [][ResolveHomePath]_vars

---------------------------------------------------------------------------
(* What the log of a run says. *)

\* The config entries of component c of the final list.
ConfigsOf(c) == IF IsSome(finalList[c].configs) THEN finalList[c].configs[1] ELSE <<>>

\* performFileOperation was called for entry e of component c.
EntryAttempted(c, e) ==
    \E i \in 1..Len(log) : log[i].op = "fileop" /\ log[i].c = c /\ log[i].e = e

\* ... and threw.
EntryFailed(c, e) ==
    \E i \in 1..Len(log) :
        log[i].op = "fileop" /\ log[i].c = c /\ log[i].e = e /\ log[i].text = "error"

\* installBuilds / installConfigs was called for component c.
StepStarted(op, c) == \E i \in 1..Len(log) : log[i].op = op /\ log[i].c = c

\* The install loop has left component c behind.
ComponentOver(c) == cmd = "install" /\ (pc = "done" \/ (pc # "start" /\ ci > c))

BuildOps == {"installBuilds", "chmod", "exec", "simulate"}

ConfigOps == {"installConfigs", "print", "fileop", "ensureDir", "remove", "copy", "symlink"}

ChangingOps == {"chmod", "exec", "ensureDir", "remove", "copy", "symlink"}

IsStep(ev) == ev.op \in {"installBuilds", "installConfigs"}

Names(list) == [i \in 1..Len(list) |-> list[i].name]

---------------------------------------------------------------------------
(* Properties. *)

\* C1: within one component, a config entry whose file operation failed does
\* not keep the later entries that pass the tag filter from being attempted.
C1_LaterEntriesAttempted ==
    \A c \in 1..Len(finalList) :
        ComponentOver(c) =>
            \A i, j \in 1..Len(ConfigsOf(c)) :
                (/\ i < j
                 /\ EntryFailed(c, i)
                 /\ HasTagged(ConfigsOf(c)[j], AutoTags(flags, machineId)))
                    => EntryAttempted(c, j)

\* C2: no step of an install run with --dry-run changes the source root, the
\* destination filesystem or the directories, or executes a shell command.
C2_DryRunChangesNothing ==
    [][(cmd = "install" /\ flags.dryRun) =>
          /\ disk' = disk
          /\ dest' = dest
          /\ dirs' = dirs
          /\ \A i \in 1..Len(log') : log'[i].op \notin ChangingOps]_vars

\* C3: after a remove that is not a dry run, no destination still holds what
\* install placed there for a component that resolved.
C3_RemoveRemovesPlacedFiles ==
    (cmd = "remove" /\ pc = "done" /\ ~flags.dryRun) =>
        \A k \in 1..Len(args) :
            LET r    == resolveManifest(disk, args[k])
                cfgs == IF IsSome(r.manifest.configs) THEN r.manifest.configs[1] ELSE <<>>
            IN  r.ok =>
                    \A e \in 1..Len(cfgs) :
                        LET p == getResolvedConfigPaths(flags.sourcePath[1], r.manifest.name,
                                                        cfgs[e], home)
                        IN  p.ok => ~(/\ dest[p.to].kind = cfgs[e].method
                                      /\ dest[p.to].src = p.from)

\* C4: the manifests the install loop holds stay what the catalog returned,
\* and getComponentBuilds called twice on one returns the same list twice.
C4_ManifestImmutable ==
    (cmd = "install" /\ pc \notin {"start", "exit"}) =>
        /\ finalList = FinalList(catalog, flags, machineId)
        /\ \A i \in 1..Len(catalog) :
               LET r1 == getComponentBuilds(machineId, catalog[i], disk)
                   r2 == getComponentBuilds(machineId, r1.manifest, r1.disk)
               IN  r1.commands = r2.commands

\* C5: the steps of an install run are installBuilds and installConfigs of
\* component 1, then of component 2, and so on, in the order of the sorted
\* and filtered catalog; everything a step does is logged before the next
\* step starts.
C5_BuildsThenConfigsInOrder ==
    (cmd = "install" /\ pc \notin {"start", "exit"}) =>
        LET steps == SelectSeq(log, IsStep)
        IN  /\ Names(finalList) = Names(FinalList(catalog, flags, machineId))
            /\ \A i \in 1..Len(log) : log[i].c \in 1..Len(finalList)
            /\ \A i \in 1..Len(steps) :
                   /\ steps[i].c = (i + 1) \div 2
                   /\ steps[i].op = IF i % 2 = 1 THEN "installBuilds" ELSE "installConfigs"
            /\ \A p, q \in 1..Len(log) :
                   p < q =>
                       /\ log[p].c <= log[q].c
                       /\ ~(/\ log[p].c = log[q].c
                            /\ log[p].op \in ConfigOps
                            /\ log[q].op \in BuildOps)

\* A run over two components, each of which ran a build command and then
\* installed a config entry.
C5_Witness ==
    /\ cmd = "install"
    /\ pc = "done"
    /\ Len(finalList) >= 2
    /\ \A c \in 1..2 :
           /\ \E i \in 1..Len(log) : log[i].c = c /\ log[i].op = "exec"
           /\ \E i \in 1..Len(log) : log[i].c = c /\ log[i].op = "fileop"

\* C6: an install run is never ended by a failure: every component the loop
\* has left behind had both its build step and its config step started.
C6_RunNeverStops ==
    cmd = "install" =>
        /\ pc # "crash"
        /\ pc = "exit" => (flags.skipFiles /\ flags.skipBuilds)
        /\ pc \in {"command", "configs", "entry"} => StepStarted("installBuilds", ci)
        /\ \A c \in 1..Len(finalList) :
               ComponentOver(c) =>
                   /\ StepStarted("installBuilds", c)
                   /\ StepStarted("installConfigs", c)

\* A finished run whose first component had a file operation fail and whose
\* second component had a build command fail and its config step started.
C6_Witness ==
    /\ cmd = "install"
    /\ pc = "done"
    /\ Len(finalList) >= 2
    /\ \E e \in 1..Len(ConfigsOf(1)) : EntryFailed(1, e)
    /\ \E i \in 1..Len(log) : log[i].c = 2 /\ log[i].op = "exec" /\ log[i].text = "false"
    /\ StepStarted("installConfigs", 2)

\* C7: performFileOperation on an entry whose destination exists, with
\* neither force in effect, reports a skip, removes, copies and links
\* nothing and leaves the destination as it is.
C7_ExistingDestinationSkipped ==
    [][(/\ cmd = "install"
        /\ pc = "entry"
        /\ ~flags.dryRun
        /\ IsSome(flags.source)
        /\ HasTagged(ConfigsOf(ci)[ei], AutoTags(flags, machineId))
        /\ resolveHomePath(ConfigsOf(ci)[ei].to, home).ok
        /\ dest[resolveHomePath(ConfigsOf(ci)[ei].to, home).path].kind # "none"
        /\ ~(flags.force \/ ConfigsOf(ci)[ei].force))
          => /\ dest' = dest
             /\ \E i \in (Len(log) + 1)..Len(log') :
                    log'[i].op = "fileop" /\ log'[i].text = "skip"
             /\ \A i \in (Len(log) + 1)..Len(log') :
                    log'[i].op \notin {"remove", "copy", "symlink"}]_vars

\* C8: the declared part of what getComponentBuilds returns is the list of
\* the machine id when the manifest has that key, else the list of "*" when
\* it has that key, else empty; what follows it are script invocations only.
C8_ExactlyOneBuildsSource ==
    (cmd = "builds" /\ pc = "done") =>
        LET b       == catalog[1].builds
            scripts == Cardinality({i \in 1..Len(cmds) : cmds[i].kind = "script"})
            n       == Len(cmds) - scripts
        IN  /\ SubSeq(cmds, 1, n) =
                   IF IsSome(b) /\ machineId \in DOMAIN b[1] THEN b[1][machineId]
                   ELSE IF IsSome(b) /\ "*" \in DOMAIN b[1] THEN b[1]["*"]
                   ELSE <<>>
            /\ \A i \in (n + 1)..Len(cmds) : cmds[i].kind = "script"

\* builds = {fedora: [a], "*": [b]} on arch: exactly [b].
C8_Witness ==
    /\ cmd = "builds"
    /\ pc = "done"
    /\ machineId = "arch"
    /\ catalog[1].builds = Some(("fedora" :> <<Declared("a")>>) @@ ("*" :> <<Declared("b")>>))
    /\ cmds = <<Declared("b")>>

\* The permutations of 1..n, and a sequence reordered by one.
Perms(n) == {f \in [1..n -> 1..n] : \A i, j \in 1..n : f[i] = f[j] => i = j}

Permute(s, f) == [i \in 1..Len(s) |-> s[f[i]]]

\* a's priority is the smaller one, an undefined priority being the largest.
PriorityLess(a, b) ==
    IsSome(a.priority) /\ (~IsSome(b.priority) \/ a.priority[1] < b.priority[1])

\* The catalog built from the same source root enumerated in another order
\* (or from the explicit names given in another order).
CatalogReordered(f) ==
    IF args = <<>>
    THEN getAvailableManifests(Permute(disk, f), flags.sort, args, flags.source)
    ELSE getAvailableManifests(disk, flags.sort, Permute(args, f), flags.source)

\* The elements of list with the priority and the name of x, in list order.
TiesOf(list, x) ==
    SelectSeq2(list, {i \in 1..Len(list) :
                         list[i].priority = x.priority /\ list[i].name = x.name})

\* C9 as stated: ascending priority (undefined last), ties in code-unit order
\* of the names, the same whatever the order of enumeration, and no two
\* components comparing equal unless their names are equal.
C9_SortedByPriorityThenCodeUnitName ==
    (cmd = "catalog" /\ pc = "done" /\ flags.sort = "priority") =>
        /\ \A i \in 1..(Len(catalog) - 1) :
               \/ PriorityLess(catalog[i], catalog[i + 1])
               \/ /\ catalog[i].priority = catalog[i + 1].priority
                  /\ CodeUnitCompare(catalog[i].name, catalog[i + 1].name) <= 0
        /\ \A f \in Perms(Len(disk)) : CatalogReordered(f) = catalog
        /\ \A i, j \in 1..Len(catalog) :
               CompareManifests("priority", catalog[i], catalog[j]) = 0
                   => catalog[i].name = catalog[j].name

\* C9 as amended: ascending priority (undefined last), ties in localeCompare
\* order of the names; components equal in priority and name keep the order
\* in which they were collected, so the result is the same whatever the
\* order of enumeration when no two components are equal in both; two
\* components compare equal only if their names are equal.
C9_SortedByPriorityThenLocaleName ==
    (cmd = "catalog" /\ pc = "done" /\ flags.sort = "priority") =>
        /\ \A i \in 1..(Len(catalog) - 1) :
               \/ PriorityLess(catalog[i], catalog[i + 1])
               \/ /\ catalog[i].priority = catalog[i + 1].priority
                  /\ localeCompare(catalog[i].name, catalog[i + 1].name) <= 0
        /\ \A i \in 1..Len(catalog) :
               TiesOf(catalog, catalog[i]) =
                   TiesOf(CollectManifests(disk, Candidates(disk, args)), catalog[i])
        /\ (\A i, j \in 1..Len(catalog) : i # j => TiesOf(catalog, catalog[i]) # TiesOf(catalog, catalog[j]))
               => \A f \in Perms(Len(disk)) : CatalogReordered(f) = catalog
        /\ \A i, j \in 1..Len(catalog) :
               CompareManifests("priority", catalog[i], catalog[j]) = 0
                   => catalog[i].name = catalog[j].name

\* A catalog where "a" precedes "B" at equal priority and a priority of 0
\* precedes an undefined one.
C9_Witness ==
    /\ cmd = "catalog"
    /\ pc = "done"
    /\ flags.sort = "priority"
    /\ \E i, j \in 1..Len(catalog) :
           /\ i < j
           /\ catalog[i].name = "a"
           /\ catalog[j].name = "B"
           /\ catalog[i].priority = catalog[j].priority
    /\ \E i, j \in 1..Len(catalog) :
           i < j /\ catalog[i].priority = Some(0) /\ catalog[j].priority = None

\* The names whose resolution the catalog attempts.
CandidateNames ==
    IF args # <<>> THEN args
    ELSE LET ds == SelectSeq2(disk, {i \in 1..Len(disk) : disk[i].kind = "dir"})
         IN  Names(ds)

\* C10: the catalog holds exactly the candidates that resolve, each as often
\* as it is a candidate, and whether a candidate resolves depends on its own
\* directory entry only.
C10_CatalogIsWhatResolves ==
    (cmd = "catalog" /\ pc = "done" /\ RootExists(flags.source)) =>
        LET ok(i)    == resolveManifest(disk, CandidateNames[i])
            resolved == {ok(i).manifest : i \in {k \in 1..Len(CandidateNames) : ok(k).ok}}
        IN  /\ \A m \in resolved \cup Range(catalog) :
                   Cardinality({i \in 1..Len(catalog) : catalog[i] = m}) =
                   Cardinality({i \in 1..Len(CandidateNames) : ok(i).ok /\ ok(i).manifest = m})
            /\ \A i \in 1..Len(CandidateNames) :
                   ok(i) = resolveManifest(
                               SelectSeq2(disk, {k \in 1..Len(disk) :
                                                    disk[k].name = CandidateNames[i]}),
                               CandidateNames[i])

\* A candidate that fails to resolve, followed by one that resolves and is
\* in the catalog.
C10_Witness ==
    /\ cmd = "catalog"
    /\ pc = "done"
    /\ RootExists(flags.source)
    /\ \E i, j \in 1..Len(CandidateNames) :
           /\ i < j
           /\ ~resolveManifest(disk, CandidateNames[i]).ok
           /\ resolveManifest(disk, CandidateNames[j]).ok
           /\ resolveManifest(disk, CandidateNames[j]).manifest \in Range(catalog)

\* The config entries of a manifest document, none when it has no configs.
DocConfigs(doc) == IF IsSome(doc.configs) THEN doc.configs[1] ELSE <<>>

\* The directory entries whose manifest.jsonc exists, parses and passes the
\* schema.
WellFormed(dsk) ==
    {i \in 1..Len(dsk) :
        /\ dsk[i].kind \in {"dir", "symlink"}
        /\ dsk[i].manifest.state = "ok"
        /\ DotfileManifestSchema(dsk[i].manifest.doc).ok}

TagsSupplied(f) == IsSome(f.tags) /\ f.tags[1] # <<>>

Excluding(f) == IsSome(f.exclude) /\ f.exclude[1] # <<>>

\* Some config entry of m has some tag that is a member of the supplied set.
TagSurvivor(m, f) ==
    /\ IsSome(m.configs)
    /\ \E j \in 1..Len(m.configs[1]) :
           Range(m.configs[1][j].tags) \cap Range(f.tags[1]) # {}

\* C12: with a non-empty tag set supplied the components that survive are
\* exactly those with a config entry having a tag of the set; with no tags
\* supplied every component survives.
C12_TagSelection ==
    (cmd = "select" /\ pc = "filtered" /\ ~Excluding(flags)) =>
        IF TagsSupplied(flags)
        THEN finalList = SelectSeq2(catalog, {i \in 1..Len(catalog) :
                                                 TagSurvivor(catalog[i], flags)})
        ELSE finalList = catalog

\* Tags fedora: a component without configs and one tagged only "*" are
\* dropped, one with a fedora entry is kept.
C12_Witness ==
    /\ cmd = "select"
    /\ pc = "filtered"
    /\ ~Excluding(flags)
    /\ flags.tags = Some(<<"fedora">>)
    /\ \E i, j, k \in 1..Len(catalog) :
           /\ catalog[i].configs = None
           /\ IsSome(catalog[j].configs) /\ catalog[j].configs[1][1].tags = <<"*">>
           /\ catalog[k] \in Range(finalList)
    /\ Len(finalList) = 1

\* C13: filtering the output of the selection filter again, with the same
\* tags and the same excluded names, returns it unchanged.
C13_FilterIdempotent ==
    (cmd = "select" /\ pc = "refiltered") => finalList = catalog

\* A first pass with tags and excluded names that dropped some components
\* and kept others, followed by the second pass.
C13_Witness ==
    /\ cmd = "select"
    /\ pc = "refiltered"
    /\ TagsSupplied(flags)
    /\ Excluding(flags)
    /\ log[1].c > log[1].e
    /\ log[1].e > 1

\* C18: the final list is the catalog with exactly the components dropped
\* that do not survive the tags or whose name is an excluded name, the rest
\* in catalog order.
C18_FinalListIsSubsequence ==
    (cmd = "select" /\ pc = "filtered") =>
        finalList = SelectSeq2(catalog, {i \in 1..Len(catalog) :
                        /\ TagsSupplied(flags) => TagSurvivor(catalog[i], flags)
                        /\ Excluding(flags) =>
                               \A k \in 1..Len(flags.exclude[1]) :
                                   catalog[i].name # flags.exclude[1][k]})

\* zsh excluded from a catalog that also lists Zsh and git: Zsh and git
\* stay, in catalog order.
C18_Witness ==
    /\ cmd = "select"
    /\ pc = "filtered"
    /\ flags.exclude = Some(<<"zsh">>)
    /\ Names(catalog) = <<"git", "zsh", "Zsh">>
    /\ Names(finalList) = <<"git", "Zsh">>

\* C14: a path that does not begin with "~" followed by a separator or by
\* the end of the string (so also one beginning with "~foo") is resolved
\* whether or not HOME is set, to the path made absolute against the
\* working directory.
C14_HomeNeededOnlyForExpansion ==
    (cmd = "resolveHomePath" /\ pc = "done" /\ ~(args # <<>> /\ args[1] = "~")) =>
        /\ log[1].op = "resolved"
        /\ log[1].path = Resolve(args)

C16_MissingSrcDirectoryFails ==
    (cmd = "catalog" /\ pc = "done") =>
        \A i \in WellFormed(disk) :
            "src" \notin disk[i].payload =>
                /\ ~resolveManifest(disk, disk[i].name).ok
                /\ resolveManifest(disk, disk[i].name).cause = "missing src directory"

\* The entries of builds/ that are regular files named machineId up to the
\* first dot, in directory order.
MatchingScripts ==
    IF ~IsSome(disk[1].builds) THEN <<>>
    ELSE LET b == disk[1].builds[1]
         IN  SelectSeq2(b, {i \in 1..Len(b) : b[i].isFile /\ Head(b[i].name) = machineId})

\* The commands the manifest, as resolved, declares for machineId.
DeclaredFor ==
    LET b == catalog[1].builds
    IN  IF ~IsSome(b) THEN <<>>
        ELSE IF machineId \in DOMAIN b[1] THEN b[1][machineId]
        ELSE IF "*" \in DOMAIN b[1] THEN b[1]["*"]
        ELSE <<>>

\* C17: getComponentBuilds returns the declared commands of the selected
\* identifier in declaration order, followed by one invocation per regular
\* file of builds/ named machineId up to the first dot, in directory order,
\* and nothing else; without a builds/ directory, the declared commands.
C17_DeclaredThenMatchingScripts ==
    (cmd = "builds" /\ pc = "done") =>
        /\ cmds = DeclaredFor \o [i \in 1..Len(MatchingScripts) |->
                                    Invocation("vim", MatchingScripts[i].name)]
        /\ ~IsSome(disk[1].builds) => cmds = DeclaredFor

\* Two declared commands followed by the two fedora scripts of a builds/
\* directory that also holds a directory called fedora and post.fedora.sh.
C17_Witness ==
    /\ cmd = "builds"
    /\ pc = "done"
    /\ machineId = "fedora"
    /\ DeclaredFor = <<Declared("b"), Declared("a")>>
    /\ cmds = <<Declared("b"), Declared("a"),
                Invocation("vim", <<"fedora", "sh">>),
                Invocation("vim", <<"fedora", "local", "sh">>)>>
    /\ \E i \in 1..Len(disk[1].builds[1]) : ~disk[1].builds[1][i].isFile

\* C19: every install run over a final list ends, and ends with both steps
\* of every component of the list started.
C19_InstallTerminates ==
    (cmd = "install" /\ pc = "builds" /\ ci = 1) ~>
        /\ pc = "done"
        /\ \A c \in 1..Len(finalList) :
               StepStarted("installBuilds", c) /\ StepStarted("installConfigs", c)

\* A finished run over two components in which a build command of the
\* first and a file operation of each of the two failed.
C19_Witness ==
    /\ cmd = "install"
    /\ pc = "done"
    /\ Len(finalList) = 2
    /\ \E i \in 1..Len(log) : log[i].c = 1 /\ log[i].op = "exec" /\ log[i].text = "false"
    /\ EntryFailed(1, 1)
    /\ EntryFailed(2, 1)

\* What a step appended to the log.
NewEvents == SubSeq(log', Len(log) + 1, Len(log'))

\* C20: performFileOperation on an entry whose destination exists, with
\* force in effect, copies or links only after it removed the destination;
\* when nothing was removed, nothing is copied or linked, the destination
\* is as it was and the error reaches installConfigs, which ends its loop.
C20_ForceRemovesBeforePlacing ==
    [][(cmd = "install" /\ pc = "entry") =>
        LET config == finalList[ci].configs[1][ei]
            p      == getResolvedConfigPaths(flags.source[1], finalList[ci].name, config, home)
            placed == {i \in 1..Len(NewEvents) : NewEvents[i].op \in {"copy", "symlink"}}
            gone   == {i \in 1..Len(NewEvents) : NewEvents[i].op = "remove"}
        IN  (/\ HasTagged(config, AutoTags(flags, machineId))
             /\ ~flags.dryRun
             /\ IsSome(flags.source)
             /\ p.ok
             /\ dest[p.to].kind # "none"
             /\ (flags.force \/ config.force))
            => /\ \A i \in placed : \E j \in gone : j < i
               /\ gone = {} =>
                      /\ placed = {}
                      /\ dest'[p.to] = dest[p.to]
                      /\ \E i \in 1..Len(NewEvents) :
                             NewEvents[i].op = "fileop" /\ NewEvents[i].text = "error"
                      /\ ~(pc' = "entry" /\ ci' = ci)
               /\ gone # {} => (placed # {} /\ dest'[p.to].kind = config.method)
      ]_vars

\* With --force, an existing destination that cannot be removed is left as
\* it is by a component whose source exists: the operation is logged as an
\* error and no copy or link follows.
C20_Witness ==
    /\ cmd = "install"
    /\ flags.force
    /\ dest[HomeDir \o <<".gitconfig">>] = [kind |-> "file", src |-> <<>>, locked |-> TRUE]
    /\ \E i \in 1..Len(log) :
           /\ log[i].op = "fileop"
           /\ log[i].text = "error"
           /\ log[i].path = HomeDir \o <<".gitconfig">>
           /\ finalList[log[i].c].name \in {"git", "zsh"}
    /\ \A i \in 1..Len(log) : log[i].op \notin {"remove", "copy", "symlink"}

---------------------------------------------------------------------------
(* The remove run. *)

\* What the log holds about the component named by args[i].
RemovalOf(i) == SelectSeq(log, LAMBDA ev : ev.c = i)

\* The cleanup commands of the component named by args[i], none when it
\* does not resolve.
CleanupOf(i) ==
    LET r == resolveManifest(disk, args[i])
    IN  IF r.ok /\ IsSome(r.manifest.cleanup) THEN r.manifest.cleanup[1] ELSE <<>>

\* How many commands of list run: up to the first failing one, it included.
RunLength(list) ==
    IF \A k \in 1..Len(list) : CommandSucceeds(list[k]) THEN Len(list)
    ELSE CHOOSE k \in 1..Len(list) :
            /\ ~CommandSucceeds(list[k])
            /\ \A j \in 1..(k - 1) : CommandSucceeds(list[j])

\* The commands the removal of args[i] hands to the shell, in order.
CleanupRun(i) ==
    LET list == CleanupOf(i)
        n    == IF flags.dryRun THEN Len(list) ELSE RunLength(list)
    IN  [k \in 1..n |-> Event(IF flags.dryRun THEN "simulate" ELSE "exec", i, k,
                              list[k].text, list[k].file)]

\* C21: once a remove run is over, every given name has been processed, in
\* the order given; a component that resolves had its cleanup commands run
\* in declaration order up to the first failing one (all of them simulated
\* and none executed under dryRun), and a component that does not resolve or
\* whose cleanup fails is followed by the processing of the next names.
C21_RemoveProcessesEveryName ==
    (cmd = "remove" /\ pc \in {"done", "crash"}) =>
        /\ \A k \in 1..(Len(log) - 1) : log[k].c <= log[k + 1].c
        /\ \A i \in 1..Len(args) :
              /\ RemovalOf(i) # <<>>
              /\ Head(RemovalOf(i)).op \in {"error", "nocleanup", "cleanup"}
              /\ Tail(RemovalOf(i)) = CleanupRun(i)
              /\ flags.dryRun => \A k \in 1..Len(log) : log[k].op # "exec"

---------------------------------------------------------------------------
(* The build step and its failing command. *)

\* Event k of the log is a build command that was executed and failed.
FailedBuildCommand(k) ==
    /\ cmd = "install"
    /\ log[k].op = "exec"
    /\ ~CommandSucceeds([text |-> log[k].text])

\* C22: in an install run the build commands of a component run in list
\* order, each one after the success of the one before it; what follows a
\* failed build command is never another build command but the config step
\* of the same component.
C22_FailingBuildCommandEndsStep ==
    cmd = "install" =>
        /\ pc = "command" =>
              /\ ki \in 1..Len(cmds)
              /\ Len(log) >= ki - 1
              /\ \A j \in 1..(ki - 1) :
                    LET ev == log[Len(log) - (ki - 1) + j]
                    IN  /\ ev = Event(ev.op, ci, j, cmds[j].text, cmds[j].file)
                        /\ ev.op \in {"exec", "simulate"}
                        /\ ev.op = "exec" => CommandSucceeds(cmds[j])
        /\ \A k \in 1..Len(log) :
              FailedBuildCommand(k) =>
                  IF k = Len(log)
                  THEN pc = "configs" /\ ci = log[k].c
                  ELSE log[k + 1].op = "installConfigs" /\ log[k + 1].c = log[k].c

\* A build command failed with another one after it in the list, and the
\* first config entry of the same component was then installed.
C22_Witness ==
    \E k \in 1..Len(log) :
        /\ FailedBuildCommand(k)
        /\ log[k].e = 1
        /\ k + 1 <= Len(log)
        /\ log[k + 1] = Event("installConfigs", log[k].c, 0, "", <<>>)
        /\ EntryAttempted(log[k].c, 1)
        /\ LET r == getComponentBuilds(machineId, finalList[log[k].c], disk)
           IN  ~r.threw /\ Len(r.commands) > 1

---------------------------------------------------------------------------
(* Selection by tag and the tag filter of installConfigs. *)

\* installConfigs printed an entry of component c: the entry passed the
\* per-entry tag filter.
EntrySelected(c) == \E i \in 1..Len(log) : log[i].op = "print" /\ log[i].c = c

\* The config step of component c ran to its end or to its first error.
ConfigStepOver(c) == ComponentOver(c) /\ ~flags.skipFiles

\* C23: when a non-empty tag set is supplied, every component of the final
\* list has an entry that installConfigs selects; a component of the final
\* list none of whose entries is selected is met only when no tags were
\* supplied, the per-entry filter then being <<machineId, "*">>.
C23_TagFiltersAgree ==
    \A c \in 1..Len(finalList) :
        ConfigStepOver(c) =>
            /\ TagsSupplied(flags) => EntrySelected(c)
            /\ ~EntrySelected(c) =>
                  /\ ~IsSome(flags.tags)
                  /\ AutoTags(flags, machineId) = <<machineId, "*">>

---------------------------------------------------------------------------
(* The paths validated and the paths used. *)

\* The directories under the source root whose resolution gave manifest man.
ResolvedFrom(man) ==
    {d \in 1..Len(disk) :
        LET r == resolveManifest(disk, disk[d].name)
        IN  r.ok /\ r.manifest = man}

\* C24: for every component of the catalog, the from path the install of
\* each of its config entries uses is the path resolveManifest checked under
\* the component's directory, and the builds directory getComponentBuilds
\* scans lies in that same directory, whatever the manifest's name is.
C24_InstallUsesValidatedPath ==
    (cmd = "install" /\ pc \notin {"start", "exit"} /\ IsSome(flags.source)) =>
        \A i \in 1..Len(catalog) :
            \A d \in ResolvedFrom(catalog[i]) :
                LET src  == flags.source[1]
                    cfgs == IF IsSome(catalog[i].configs) THEN catalog[i].configs[1] ELSE <<>>
                IN  /\ \A e \in 1..Len(cfgs) :
                          getResolvedConfigPaths(src, catalog[i].name, cfgs[e], home).from
                              = Resolve(fullFromPath(src, disk[d].name, cfgs[e]))
                    /\ buildsDir(src, catalog[i])
                          = componentDir(src, disk[d].name) \o <<"builds">>
                    /\ DirEntry(disk, catalog[i].name) = Some(d)

====
